---- MODULE Spec2Model ----
(***************************************************************************)
(* Model of signingscript/task.py: the scope authorizer (task_cert_type),  *)
(* the format resolver (_get_signing_function_from_format), the format     *)
(* orderer (_sort_formats), the per-file pipeline with its archive         *)
(* lifecycle (sign, make_archive) and the upstream artifact resolver       *)
(* (build_filelist_dict).                                                  *)
(*                                                                         *)
(* Python strings that the code inspects character by character            *)
(* (startswith, endswith, re.match) are sequences of one-character         *)
(* strings; Chars gives the characters of every string literal used.       *)
(***************************************************************************)
EXTENDS Integers, Sequences, FiniteSets, TLC

VARIABLES
    pc,               \* position of the modelled call
    task_scopes,      \* context.task["scopes"]
    scope_prefixes,   \* context.config["taskcluster_scope_prefixes"]
    cert_type,        \* outcome of task_cert_type(context)
    lookups,          \* the format strings handed to the format resolver, in turn
    format,           \* argument of the latest _get_signing_function_from_format call
    signing_func,     \* what that call returned
    requested,        \* a list of requested formats, as the payload gives it
    reordered,        \* the same formats in another order
    sorted_once,      \* _sort_formats(requested)
    sorted_twice,     \* _sort_formats(_sort_formats(requested))
    sorted_reordered, \* _sort_formats(reordered)
    path,             \* sign(): the source file to sign
    via,              \* how the format list reached sign(): "build_filelist_dict" or "caller"
    signing_formats,  \* sign(): the formats to sign with
    idx,              \* position of the for loop in signing_formats
    output,           \* sign(): output
    recreate_archive, \* sign(): recreate_archive
    archive_ext,      \* sign(): archive_ext
    unpacked,         \* the directories extract_archive created and nothing removed
    log,              \* the calls sign() made, in order
    result,           \* what sign() returned or raised
    payload,          \* context.task["payload"]["upstreamArtifacts"]
    existing,         \* the paths for which os.path.exists is true
    files_result,     \* what build_filelist_dict returned or raised
    entry_formats,    \* the formats lists that file entries refer to, one per group
    pipes,            \* the sign() calls that run side by side, one per file entry
    workdirs          \* the directories extract_archive created in the work directory

scopeVars == <<task_scopes, scope_prefixes, cert_type>>
fmtVars == <<lookups, format, signing_func>>
sortVars == <<requested, reordered, sorted_once, sorted_twice, sorted_reordered>>
signVars == <<path, via, signing_formats, idx, output, recreate_archive,
              archive_ext, unpacked, log, result>>
fileVars == <<payload, existing, files_result>>
pairVars == <<entry_formats, pipes, workdirs>>
vars == <<pc, scopeVars, fmtVars, sortVars, signVars, fileVars, pairVars>>

None == "None"

\* ------------------------------------------------------------------------
\* Strings

\* The characters of a string literal.
CharsOfLiteral(s) ==
    IF s = "p" THEN <<"p">> ELSE
    IF s = "p:" THEN <<"p", ":">> ELSE
    IF s = "p:cert" THEN <<"p", ":", "c", "e", "r", "t">> ELSE
    IF s = "q:" THEN <<"q", ":">> ELSE
    IF s = "p:cert:dep" THEN <<"p", ":", "c", "e", "r", "t", ":", "d", "e", "p">> ELSE
    IF s = "p:cert:rel" THEN <<"p", ":", "c", "e", "r", "t", ":", "r", "e", "l">> ELSE
    IF s = "p:cert:cert:x" THEN <<"p", ":", "c", "e", "r", "t", ":", "c", "e", "r", "t", ":", "x">> ELSE
    IF s = "q:cert:dep" THEN <<"q", ":", "c", "e", "r", "t", ":", "d", "e", "p">> ELSE
    IF s = "p:format:gpg" THEN <<"p", ":", "f", "o", "r", "m", "a", "t", ":", "g", "p", "g">> ELSE
    IF s = "cert" THEN <<"c", "e", "r", "t">> ELSE
    IF s = "autograph_focus" THEN <<"a", "u", "t", "o", "g", "r", "a", "p", "h", "_", "f", "o", "c", "u", "s">> ELSE
    IF s = "autograph_apk_.+" THEN <<"a", "u", "t", "o", "g", "r", "a", "p", "h", "_", "a", "p", "k", "_", ".", "+">> ELSE
    IF s = "autograph_hash_only_mar384(:\\w+)?" THEN <<"a", "u", "t", "o", "g", "r", "a", "p", "h", "_", "h", "a", "s", "h", "_", "o", "n", "l", "y", "_", "m", "a", "r", "3", "8", "4", "(", ":", "\\", "w", "+", ")", "?">> ELSE
    IF s = "autograph_stage_mar384(:\\w+)?" THEN <<"a", "u", "t", "o", "g", "r", "a", "p", "h", "_", "s", "t", "a", "g", "e", "_", "m", "a", "r", "3", "8", "4", "(", ":", "\\", "w", "+", ")", "?">> ELSE
    IF s = "gpg" THEN <<"g", "p", "g">> ELSE
    IF s = "autograph_gpg" THEN <<"a", "u", "t", "o", "g", "r", "a", "p", "h", "_", "g", "p", "g">> ELSE
    IF s = "jar" THEN <<"j", "a", "r">> ELSE
    IF s = "focus-jar" THEN <<"f", "o", "c", "u", "s", "-", "j", "a", "r">> ELSE
    IF s = "macapp" THEN <<"m", "a", "c", "a", "p", "p">> ELSE
    IF s = "widevine" THEN <<"w", "i", "d", "e", "v", "i", "n", "e">> ELSE
    IF s = "autograph_widevine" THEN <<"a", "u", "t", "o", "g", "r", "a", "p", "h", "_", "w", "i", "d", "e", "v", "i", "n", "e">> ELSE
    IF s = "autograph_omnija" THEN <<"a", "u", "t", "o", "g", "r", "a", "p", "h", "_", "o", "m", "n", "i", "j", "a">> ELSE
    IF s = "autograph_langpack" THEN <<"a", "u", "t", "o", "g", "r", "a", "p", "h", "_", "l", "a", "n", "g", "p", "a", "c", "k">> ELSE
    IF s = "autograph_authenticode" THEN <<"a", "u", "t", "o", "g", "r", "a", "p", "h", "_", "a", "u", "t", "h", "e", "n", "t", "i", "c", "o", "d", "e">> ELSE
    IF s = "autograph_authenticode_stub" THEN <<"a", "u", "t", "o", "g", "r", "a", "p", "h", "_", "a", "u", "t", "h", "e", "n", "t", "i", "c", "o", "d", "e", "_", "s", "t", "u", "b">> ELSE
    IF s = "default" THEN <<"d", "e", "f", "a", "u", "l", "t">> ELSE
    IF s = "autograph_apk_" THEN <<"a", "u", "t", "o", "g", "r", "a", "p", "h", "_", "a", "p", "k", "_">> ELSE
    IF s = "autograph_hash_only_mar384" THEN <<"a", "u", "t", "o", "g", "r", "a", "p", "h", "_", "h", "a", "s", "h", "_", "o", "n", "l", "y", "_", "m", "a", "r", "3", "8", "4">> ELSE
    IF s = "autograph_stage_mar384" THEN <<"a", "u", "t", "o", "g", "r", "a", "p", "h", "_", "s", "t", "a", "g", "e", "_", "m", "a", "r", "3", "8", "4">> ELSE
    IF s = "autograph_apk_fenix" THEN <<"a", "u", "t", "o", "g", "r", "a", "p", "h", "_", "a", "p", "k", "_", "f", "e", "n", "i", "x">> ELSE
    IF s = "autograph_hash_only_mar384:rel" THEN <<"a", "u", "t", "o", "g", "r", "a", "p", "h", "_", "h", "a", "s", "h", "_", "o", "n", "l", "y", "_", "m", "a", "r", "3", "8", "4", ":", "r", "e", "l">> ELSE
    IF s = "autograph_stage_mar384:" THEN <<"a", "u", "t", "o", "g", "r", "a", "p", "h", "_", "s", "t", "a", "g", "e", "_", "m", "a", "r", "3", "8", "4", ":">> ELSE
    IF s = "autograph_authenticode_stubs" THEN <<"a", "u", "t", "o", "g", "r", "a", "p", "h", "_", "a", "u", "t", "h", "e", "n", "t", "i", "c", "o", "d", "e", "_", "s", "t", "u", "b", "s">> ELSE
    IF s = "jarsigner" THEN <<"j", "a", "r", "s", "i", "g", "n", "e", "r">> ELSE
    IF s = "sha2signcode" THEN <<"s", "h", "a", "2", "s", "i", "g", "n", "c", "o", "d", "e">> ELSE
    IF s = "autograph_gp" THEN <<"a", "u", "t", "o", "g", "r", "a", "p", "h", "_", "g", "p">> ELSE
    IF s = "" THEN <<>> ELSE
    IF s = ".zip" THEN <<".", "z", "i", "p">> ELSE
    IF s = ".tar.gz" THEN <<".", "t", "a", "r", ".", "g", "z">> ELSE
    IF s = ".tar.bz2" THEN <<".", "t", "a", "r", ".", "b", "z", "2">> ELSE
    IF s = "/" THEN <<"/">> ELSE
    IF s = "a" THEN <<"a">> ELSE
    IF s = "b" THEN <<"b">> ELSE
    IF s = "c" THEN <<"c">> ELSE
    IF s = "t1" THEN <<"t", "1">> ELSE
    IF s = "t2" THEN <<"t", "2">> ELSE
    IF s = "cot" THEN <<"c", "o", "t">> ELSE
    IF s = "/work" THEN <<"/", "w", "o", "r", "k">> ELSE
    IF s = "/work/cot" THEN <<"/", "w", "o", "r", "k", "/", "c", "o", "t">> ELSE
    IF s = "/work/cot/t1" THEN <<"/", "w", "o", "r", "k", "/", "c", "o", "t", "/", "t", "1">> ELSE
    IF s = "/work/cot/t2" THEN <<"/", "w", "o", "r", "k", "/", "c", "o", "t", "/", "t", "2">> ELSE
    IF s = "unpacked-1" THEN <<"u", "n", "p", "a", "c", "k", "e", "d", "-", "1">> ELSE
    IF s = "unpacked-2" THEN <<"u", "n", "p", "a", "c", "k", "e", "d", "-", "2">> ELSE
    IF s = "unpacked-3" THEN <<"u", "n", "p", "a", "c", "k", "e", "d", "-", "3">> ELSE
    IF s = "unpacked-4" THEN <<"u", "n", "p", "a", "c", "k", "e", "d", "-", "4">> ELSE
    IF s = "unpacked-5" THEN <<"u", "n", "p", "a", "c", "k", "e", "d", "-", "5">> ELSE
    IF s = "app.zip" THEN <<"a", "p", "p", ".", "z", "i", "p">> ELSE
    IF s = "app.tar.gz" THEN <<"a", "p", "p", ".", "t", "a", "r", ".", "g", "z">> ELSE
    IF s = "repacked" THEN <<"r", "e", "p", "a", "c", "k", "e", "d">> ELSE
    IF s = "app.tar.bz2" THEN <<"a", "p", "p", ".", "t", "a", "r", ".", "b", "z", "2">> ELSE
    IF s = "setup.exe" THEN <<"s", "e", "t", "u", "p", ".", "e", "x", "e">> ELSE
    IF s = "app" THEN <<"a", "p", "p">> ELSE
    <<>>

\* The string literals of the model.
Literals == {
    "p", "p:", "p:cert", "q:", "p:cert:dep", "p:cert:rel", "p:cert:cert:x",
    "q:cert:dep", "p:format:gpg", "cert", "autograph_focus",
    "autograph_apk_.+", "autograph_hash_only_mar384(:\\w+)?",
    "autograph_stage_mar384(:\\w+)?", "gpg", "autograph_gpg", "jar",
    "focus-jar", "macapp", "widevine", "autograph_widevine",
    "autograph_omnija", "autograph_langpack", "autograph_authenticode",
    "autograph_authenticode_stub", "default", "autograph_apk_",
    "autograph_hash_only_mar384", "autograph_stage_mar384",
    "autograph_apk_fenix", "autograph_hash_only_mar384:rel",
    "autograph_stage_mar384:", "autograph_authenticode_stubs", "jarsigner",
    "sha2signcode", "autograph_gp", "", ".zip", ".tar.gz", ".tar.bz2", "/",
    "a", "b", "c", "t1", "t2", "cot", "/work", "/work/cot", "/work/cot/t1",
    "/work/cot/t2", "unpacked-1", "unpacked-2", "unpacked-3", "unpacked-4",
    "unpacked-5", "repacked", "app.zip", "app.tar.gz", "app.tar.bz2", "setup.exe", "app" }

CharTable == [s \in Literals |-> CharsOfLiteral(s)]

\* The characters of s (s is one of Literals).
Chars(s) == CharTable[s]

\* The sequences over S of length at most n.
SeqsUpTo(S, n) == UNION {[1..k -> S] : k \in 0..n}

\* str.startswith(prefix)
startswith(s, prefix) ==
    /\ Len(prefix) <= Len(s)
    /\ SubSeq(s, 1, Len(prefix)) = prefix

\* str.endswith(suffix)
endswith(s, suffix) ==
    /\ Len(suffix) <= Len(s)
    /\ SubSeq(s, Len(s) - Len(suffix) + 1, Len(s)) = suffix

Return(v) == [kind |-> "return", value |-> v]
Raise(e) == [kind |-> "raise", error |-> e]
NotCalled == [kind |-> "none"]

\* The parts of the state a specification does not use stay as follows.
IdleScope == task_scopes = <<>> /\ scope_prefixes = <<>> /\ cert_type = NotCalled
IdleFormat == lookups = <<>> /\ format = None /\ signing_func = None
IdleSort ==
    /\ requested = <<>> /\ reordered = <<>>
    /\ sorted_once = None /\ sorted_twice = None /\ sorted_reordered = None
IdleSign ==
    /\ path = None /\ via = None /\ signing_formats = <<>> /\ idx = 0
    /\ output = None /\ recreate_archive = FALSE /\ archive_ext = None
    /\ unpacked = {} /\ log = <<>> /\ result = NotCalled
IdleFiles == payload = <<>> /\ existing = {} /\ files_result = NotCalled
IdlePair == entry_formats = <<>> /\ pipes = <<>> /\ workdirs = {}

\* scriptworker.utils.get_single_item_from_sequence: the items that satisfy
\* the condition (already filtered into seq); exactly one is returned, zero
\* or several raise ErrorClass.
get_single_item_from_sequence(seq, ErrorClass) ==
    IF Len(seq) = 1 THEN Return(seq[1]) ELSE Raise(ErrorClass)

\* ------------------------------------------------------------------------
\* Scope authorizer

MaxScopes == 2
MaxPrefixes == 2

ScopePool == {"p:cert:dep", "p:cert:rel", "p:cert:cert:x", "q:cert:dep",
              "p:format:gpg", "p:cert"}
PrefixPool == {"p", "p:", "p:cert", "q:"}

\* "{}{}:".format(prefix, sub_namespace) over the ':'-terminated prefixes
_get_scope_prefixes(prefixes, sub_namespace) ==
    [i \in 1..Len(prefixes) |->
        (IF endswith(Chars(prefixes[i]), <<":">>)
            THEN Chars(prefixes[i])
            ELSE Chars(prefixes[i]) \o <<":">>)
        \o Chars(sub_namespace) \o <<":">>]

_get_cert_prefixes(prefixes) == _get_scope_prefixes(prefixes, "cert")

\* for prefix in prefixes: if all(scope.startswith(prefix) ...): break
\* else: raise.  TRUE when the check passes.
_check_scopes_exist_and_all_have_the_same_prefix(scopes, prefixes) ==
    \E i \in 1..Len(prefixes) :
        \A j \in 1..Len(scopes) : startswith(Chars(scopes[j]), prefixes[i])

\* [scope for scope in scopes for prefix in prefixes if scope.startswith(prefix)]:
\* one entry per (scope, prefix) pair that matches, scopes outermost.
RECURSIVE ScopesByPrefix(_, _)
ScopesByPrefix(scopes, prefixes) ==
    IF scopes = <<>> THEN <<>>
    ELSE LET scope == Head(scopes)
             hits == SelectSeq(prefixes, LAMBDA prefix : startswith(Chars(scope), prefix))
         IN [k \in 1..Len(hits) |-> scope] \o ScopesByPrefix(Tail(scopes), prefixes)

_extract_scopes_from_unique_prefix(scopes, prefixes) ==
    LET found == ScopesByPrefix(scopes, prefixes)
    IN IF _check_scopes_exist_and_all_have_the_same_prefix(found, prefixes)
          THEN Return(found)
          ELSE Raise("TaskVerificationError")

task_cert_type(scopes, config_prefixes) ==
    IF scopes = <<>> THEN Raise("TaskVerificationError")
    ELSE LET prefixes == _get_cert_prefixes(config_prefixes)
             found == _extract_scopes_from_unique_prefix(scopes, prefixes)
         IN IF found.kind = "raise" THEN found
            ELSE get_single_item_from_sequence(found.value, "TaskVerificationError")

InitScope ==
    /\ pc = "start"
    /\ task_scopes \in SeqsUpTo(ScopePool, MaxScopes)
    /\ scope_prefixes \in SeqsUpTo(PrefixPool, MaxPrefixes)
    /\ cert_type = NotCalled
    /\ IdleFormat /\ IdleSort /\ IdleSign /\ IdleFiles /\ IdlePair

CallTaskCertType ==
    /\ pc = "start"
    /\ cert_type' = task_cert_type(task_scopes, scope_prefixes)
    /\ pc' = "done"
    /\ UNCHANGED <<task_scopes, scope_prefixes, fmtVars, sortVars, signVars, fileVars, pairVars>>

NextScope == CallTaskCertType

SpecScope == InitScope /\ [][NextScope]_vars

\* The task scopes (positions in the scope list) that start with at least
\* one configured full prefix "{base}:cert:".
MatchingScopes(scopes, config_prefixes) ==
    LET full == _get_cert_prefixes(config_prefixes)
    IN {i \in 1..Len(scopes) :
            \E j \in 1..Len(full) : startswith(Chars(scopes[i]), full[j])}

\* C1: task_cert_type returns the matching scope when exactly one task scope
\* starts with a configured full prefix, and fails with the verification
\* error (returning nothing) when zero or several task scopes match.
C1_ExactlyOneScopeResolves ==
    pc = "done" =>
        LET m == MatchingScopes(task_scopes, scope_prefixes)
        IN IF Cardinality(m) = 1
              THEN \E i \in m : cert_type = Return(task_scopes[i])
              ELSE cert_type = Raise("TaskVerificationError")

\* C19: a task scope is counted once however many configured prefixes it
\* starts with: the scopes handed to the single-item test are as many as the
\* task scopes that match, and a task with a single matching scope resolves.
C19_ScopeCountedOnce ==
    (pc = "done" /\ task_scopes # <<>>) =>
        LET m == MatchingScopes(task_scopes, scope_prefixes)
            counted == ScopesByPrefix(task_scopes, _get_cert_prefixes(scope_prefixes))
        IN /\ Len(counted) = Cardinality(m)
           /\ Cardinality(m) = 1 => cert_type.kind = "return"

\* ------------------------------------------------------------------------
\* Format resolver

\* FORMAT_TO_SIGNING_FUNCTION.items(), in the order of the dict literal
FORMAT_TO_SIGNING_FUNCTION == <<
    <<"autograph_focus", "sign_jar">>,
    <<"autograph_apk_.+", "sign_jar">>,
    <<"autograph_hash_only_mar384(:\\w+)?", "sign_mar384_with_autograph_hash">>,
    <<"autograph_stage_mar384(:\\w+)?", "sign_mar384_with_autograph_hash">>,
    <<"gpg", "sign_gpg">>,
    <<"autograph_gpg", "sign_gpg_with_autograph">>,
    <<"jar", "sign_jar">>,
    <<"focus-jar", "sign_jar">>,
    <<"macapp", "sign_macapp">>,
    <<"widevine", "sign_widevine">>,
    <<"autograph_widevine", "sign_widevine">>,
    <<"autograph_omnija", "sign_omnija">>,
    <<"autograph_langpack", "sign_langpack">>,
    <<"autograph_authenticode", "sign_authenticode_zip">>,
    <<"autograph_authenticode_stub", "sign_authenticode_zip">>,
    <<"default", "sign_file">> >>

RegistryKeys == {FORMAT_TO_SIGNING_FUNCTION[i][1] : i \in 1..Len(FORMAT_TO_SIGNING_FUNCTION)}

\* FORMAT_TO_SIGNING_FUNCTION[key]
RegistryAt(key) ==
    LET i == CHOOSE j \in 1..Len(FORMAT_TO_SIGNING_FUNCTION) :
                 FORMAT_TO_SIGNING_FUNCTION[j][1] = key
    IN FORMAT_TO_SIGNING_FUNCTION[i][2]

\* (variant: the lookup of the literal key is skipped)
RegistryGet_DefaultOnly(key, default) == default

\* FORMAT_TO_SIGNING_FUNCTION.get(key, default)
RegistryGet(key, default) ==
    IF key \in RegistryKeys THEN RegistryAt(key) ELSE default

\* Characters with a special meaning in a regular expression; every other
\* character of a registry key matches itself.
MetaChars == {".", "+", "*", "?", "(", ")", "[", "]", "{", "}", "|", "^", "$", "\\"}
\* \w for the characters of the model's strings
WordChars == {"a", "b", "c", "d", "e", "f", "g", "h", "i", "j", "k", "l", "m",
              "n", "o", "p", "q", "r", "s", "t", "u", "v", "w", "x", "y", "z",
              "0", "1", "2", "3", "4", "5", "6", "7", "8", "9", "_"}

\* The literal head of a pattern: its characters before the first special one.
PatternHead(pat) ==
    LET n == CHOOSE k \in 0..Len(pat) :
                 /\ \A i \in 1..k : pat[i] \notin MetaChars
                 /\ k < Len(pat) => pat[k + 1] \in MetaChars
    IN SubSeq(pat, 1, n)

PatternTail(pat) == SubSeq(pat, Len(PatternHead(pat)) + 1, Len(pat))

\* The positions at which a match of the pattern that starts at the
\* beginning of s can end.  The registry's keys are a literal head followed
\* by nothing, by ".+" or by "(:\w+)?".
re_match_ends(pattern, s) ==
    LET head == PatternHead(Chars(pattern))
        tail == PatternTail(Chars(pattern))
        h == Len(head)
    IN IF ~startswith(s, head) THEN {}
       ELSE IF tail = <<>> THEN {h}
       ELSE IF tail = <<".", "+">>
            THEN {e \in (h + 1)..Len(s) : \A i \in (h + 1)..e : s[i] # "\n"}
       ELSE IF tail = <<"(", ":", "\\", "w", "+", ")", "?">>
            THEN {h} \cup {e \in (h + 2)..Len(s) :
                              /\ s[h + 1] = ":"
                              /\ \A i \in (h + 2)..e : s[i] \in WordChars}
       ELSE CHOOSE c \in {} : TRUE    \* not a pattern of the registry

\* re.match(pattern, string) is not None: a match anchored at the start of
\* the string, which need not reach its end.
re_match(pattern, s) == re_match_ends(pattern, Chars(s)) # {}

_get_signing_function_from_format(fmt) ==
    LET hits == SelectSeq(FORMAT_TO_SIGNING_FUNCTION,
                          LAMBDA item : re_match(item[1], fmt))
        single == get_single_item_from_sequence(hits, "ValueError")
    IN IF single.kind = "return"
          THEN single.value[2]
          ELSE RegistryGet(fmt, RegistryAt("default"))

MaxLookups == 2

FormatPool == RegistryKeys \cup
    {"autograph_apk_", "autograph_apk_fenix", "autograph_hash_only_mar384",
     "autograph_hash_only_mar384:rel", "autograph_stage_mar384:",
     "autograph_authenticode_stubs", "jarsigner", "sha2signcode",
     "autograph_gp", ""}

InitFormat ==
    /\ pc = "start"
    /\ lookups \in SeqsUpTo(FormatPool, MaxLookups)
    /\ format = None /\ signing_func = None
    /\ IdleScope /\ IdleSort /\ IdleSign /\ IdleFiles /\ IdlePair

\* signing_func = _get_signing_function_from_format(fmt), for the next
\* format of the list
ResolveFormat ==
    /\ pc = "start"
    /\ lookups # <<>>
    /\ format' = Head(lookups)
    /\ signing_func' = _get_signing_function_from_format(Head(lookups))
    /\ lookups' = Tail(lookups)
    /\ UNCHANGED <<pc, scopeVars, sortVars, signVars, fileVars, pairVars>>

NextFormat == ResolveFormat

SpecFormat == InitFormat /\ [][NextFormat]_vars

\* The registry keys whose pattern matches the requested format.
MatchingKeys(fmt) == {k \in RegistryKeys : re_match(k, fmt)}

\* C2: precedence unique pattern match > exact literal key > default: one
\* matching key gives that key's operation; several matching keys give the
\* operation of the key equal to the request if there is one, else the
\* default operation; no matching key gives the default operation.
C2_ResolverPrecedence ==
    format # None =>
        LET keys == MatchingKeys(format)
        IN IF Cardinality(keys) = 1
              THEN \E k \in keys : signing_func = RegistryAt(k)
           ELSE IF Cardinality(keys) > 1 /\ format \in RegistryKeys
              THEN signing_func = RegistryAt(format)
           ELSE signing_func = "sign_file"

\* Several keys match and one of them is the request itself.
C2_Witness ==
    /\ format = "autograph_authenticode_stub"
    /\ Cardinality(MatchingKeys(format)) = 2
    /\ signing_func = "sign_authenticode_zip"

\* The registry keys whose pattern matches the whole of the requested format.
FullyMatchingKeys(fmt) ==
    {k \in RegistryKeys : Len(Chars(fmt)) \in re_match_ends(k, Chars(fmt))}

\* C12: a key counts as matching only when its pattern matches the entire
\* requested string, so a request that no key matches entirely (and that is
\* not itself the text of a key) resolves to the default operation, also
\* when it begins with a key.
C12_WholeStringMatch ==
    (format # None /\ format \notin RegistryKeys /\ FullyMatchingKeys(format) = {})
        => signing_func = "sign_file"


\* ------------------------------------------------------------------------
\* Format orderer

\* x in l
In(x, l) == \E i \in 1..Len(l) : l[i] = x

\* list.remove(x): drops the first occurrence of x (x is in l)
list_remove(l, x) ==
    LET i == CHOOSE j \in 1..Len(l) :
                 l[j] = x /\ \A h \in 1..(j - 1) : l[h] # x
    IN SubSeq(l, 1, i - 1) \o SubSeq(l, i + 1, Len(l))

\* The tuple _sort_formats loops over.
PriorityFormats == <<"widevine", "autograph_widevine", "autograph_omnija",
                     "macapp", "gpg", "autograph_gpg">>

\* (variant: the format is left where it is)
MoveToEnd_Stays(formats, fmt) == formats

\* if fmt in formats: formats.remove(fmt); formats.append(fmt)
MoveToEnd(formats, fmt) ==
    IF In(fmt, formats) THEN Append(list_remove(formats, fmt), fmt) ELSE formats

\* The loop of _sort_formats from the k-th priority format on.
RECURSIVE SortFrom(_, _)
SortFrom(formats, k) ==
    IF k > Len(PriorityFormats) THEN formats
    ELSE SortFrom(MoveToEnd(formats, PriorityFormats[k]), k + 1)

_sort_formats(formats) == SortFrom(formats, 1)

MaxFormats == 3

SortPool == {"jar", "focus-jar", "widevine", "autograph_widevine", "gpg", "autograph_gpg"}

\* l and m hold the same formats the same number of times
IsPermutation(l, m) ==
    /\ Len(l) = Len(m)
    /\ \A x \in SortPool :
           Cardinality({i \in 1..Len(l) : l[i] = x})
             = Cardinality({i \in 1..Len(m) : m[i] = x})

InitSort ==
    /\ pc = "start"
    /\ requested \in SeqsUpTo(SortPool, MaxFormats)
    /\ reordered \in {m \in SeqsUpTo(SortPool, MaxFormats) : IsPermutation(requested, m)}
    /\ sorted_once = None /\ sorted_twice = None /\ sorted_reordered = None
    /\ IdleScope /\ IdleFormat /\ IdleSign /\ IdleFiles /\ IdlePair

\* _sort_formats(formats)
SortFormats ==
    /\ pc = "start"
    /\ sorted_once' = _sort_formats(requested)
    /\ pc' = "sorted"
    /\ UNCHANGED <<requested, reordered, sorted_twice, sorted_reordered, scopeVars, fmtVars, signVars, fileVars, pairVars>>

\* _sort_formats applied to its own result
SortAgain ==
    /\ pc = "sorted"
    /\ sorted_twice' = _sort_formats(sorted_once)
    /\ pc' = "resorted"
    /\ UNCHANGED <<requested, reordered, sorted_once, sorted_reordered, scopeVars, fmtVars, signVars, fileVars, pairVars>>

\* _sort_formats applied to the same request in another order
SortReordered ==
    /\ pc = "sorted"
    /\ sorted_reordered' = _sort_formats(reordered)
    /\ pc' = "compared"
    /\ UNCHANGED <<requested, reordered, sorted_once, sorted_twice, scopeVars, fmtVars, signVars, fileVars, pairVars>>

NextSort == SortFormats \/ SortAgain \/ SortReordered

SpecSort == InitSort /\ [][NextSort]_vars

\* C4: _sort_formats is idempotent for every list of requested formats,
\* lists with a repeated format included.
C4_Idempotent == pc = "resorted" => sorted_twice = sorted_once

PrioritySet == {PriorityFormats[i] : i \in 1..Len(PriorityFormats)}
NoRepeats(l) == \A i, j \in 1..Len(l) : l[i] = l[j] => i = j
NonPriority(l) == SelectSeq(l, LAMBDA f : f \notin PrioritySet)
\* each priority format that l holds, once, in the fixed priority order
PriorityTail(l) == SelectSeq(PriorityFormats, LAMBDA f : In(f, l))
LastN(l, n) == SubSeq(l, Len(l) - n + 1, Len(l))

\* C7 (as stated): two lists that are permutations of each other are
\* ordered to the same result.
C7_OrderIndependent == pc = "compared" => sorted_reordered = sorted_once

\* C7 (amended): two lists that are permutations of each other are ordered
\* to results with the same tail, holding each requested priority format
\* once in the fixed priority order; the whole results are equal when no
\* format is repeated and the two lists give the formats outside the
\* priority list in the same relative order.
C7_OrderIndependentTail ==
    pc = "compared" =>
        LET tail == PriorityTail(requested)
        IN /\ LastN(sorted_once, Len(tail)) = tail
           /\ LastN(sorted_reordered, Len(tail)) = tail
           /\ (NoRepeats(requested) /\ NonPriority(requested) = NonPriority(reordered))
                  => sorted_reordered = sorted_once

\* A request with two priority formats given in two different orders.
C7_Witness ==
    /\ pc = "compared"
    /\ requested = <<"gpg", "widevine", "jar">>
    /\ reordered = <<"widevine", "jar", "gpg">>
    /\ sorted_once = <<"jar", "widevine", "gpg">>
    /\ sorted_reordered = sorted_once

\* f, n times
Repeat(f, n) == [i \in 1..n |-> f]
\* how often f occurs in l
Count(f, l) == Cardinality({i \in 1..Len(l) : l[i] = f})
\* every occurrence of the priority formats from the k-th on that l holds,
\* arranged in the fixed priority order
RECURSIVE AllPriorityFrom(_, _)
AllPriorityFrom(l, k) ==
    IF k > Len(PriorityFormats) THEN <<>>
    ELSE Repeat(PriorityFormats[k], Count(PriorityFormats[k], l)) \o AllPriorityFrom(l, k + 1)

\* C13: the output is the formats outside the priority list in their
\* original relative order, followed by every occurrence of the priority
\* formats present, arranged in the fixed priority order.
C13_NonPriorityThenPriorityTail ==
    pc = "sorted" =>
        sorted_once = NonPriority(requested) \o AllPriorityFrom(requested, 1)


\* ------------------------------------------------------------------------
\* The per-file pipeline: sign() and make_archive()

\* A Python value that is one path (str) or a list of paths.
StrValue(loc) == [type |-> "str", items |-> <<loc>>]
ListValue(locs) == [type |-> "list", items |-> locs]

archive_formats == {"autograph_widevine", "autograph_omnija", "autograph_authenticode"}

\* The if/elif chain that sets archive_ext from path.endswith(...)
ArchiveExtOf(p) ==
    IF endswith(Chars(p), Chars(".zip")) THEN ".zip"
    ELSE IF endswith(Chars(p), Chars(".tar.gz")) THEN ".tar.gz"
    ELSE IF endswith(Chars(p), Chars(".tar.bz2")) THEN ".tar.bz2"
    ELSE None

\* The source paths sign() is given; "app" is a directory, the others are files.
SignPaths == {"app.zip", "app.tar.gz", "app.tar.bz2", "setup.exe", "app"}
DirPaths == {"app"}

\* (variant: the test answers for the work directory as a whole)
isdir_AnyMade(loc, made) == loc \in DirPaths \/ made # {}

\* os.path.isdir(loc) for a path: the directories are those given as input
\* and those extract_archive created (nothing in sign() removes one).
isdir(loc, made) == loc \in DirPaths \/ loc \in made

\* extract_archive(context, path): a container (.zip, .tar.gz, .tar.bz2) is
\* unpacked into a fresh working directory, whose path is returned; the
\* call fails for any other file, and can fail for a container.
UnpackDirs == <<"unpacked-1", "unpacked-2", "unpacked-3", "unpacked-4", "unpacked-5">>
extract_archive(src, made, ok) ==
    IF ArchiveExtOf(src) # None /\ ok
        THEN Return(UnpackDirs[Cardinality(made) + 1])
        ELSE Raise("ArchiveError")

\* ssign._create_zipfile / ssign._create_tarfile: write the archive to the
\* path they are given and return it, or fail.
create_archive(dest, ok) == IF ok THEN Return(dest) ELSE Raise("ArchiveError")

\* (variant: any extension is packed as a zip file)
make_archive_AnyExt(ext, dest, ok) == create_archive(dest, ok)

\* (variant: the archive is written beside the destination it was given)
make_archive_Beside(ext, dest, ok) ==
    IF ext \in {".zip", ".tar.bz2", ".tar.gz"}
        THEN create_archive(IF ok THEN "repacked" ELSE dest, ok)
        ELSE Raise("ValueError")

\* make_archive(context, dirname, archive_ext, output)
make_archive(ext, dest, ok) ==
    IF ext = ".zip" THEN create_archive(dest, ok)
    ELSE IF ext \in {".tar.bz2", ".tar.gz"} THEN create_archive(dest, ok)
    ELSE Raise("ValueError")

\* The value a signing function returns on success: the path it was given,
\* signed in place, and for the gpg functions the detached signature too.
signing_output(func, loc) ==
    IF func \in {"sign_gpg", "sign_gpg_with_autograph"}
        THEN ListValue(<<loc, loc \o ".asc">>)
        ELSE StrValue(loc)

\* (variant: a failure of the signing function is swallowed)
signing_outcome_Swallowed(func, loc, ok) == Return(signing_output(func, loc))

\* await signing_func(context, output, fmt): the value returned, or the
\* error the function raised, which sign() does not catch.
signing_outcome(func, loc, ok) ==
    IF ok THEN Return(signing_output(func, loc)) ELSE Raise("BackendError")

\* (variant: the directory test is left out)
NeedsUnpack_Always(fmt, out, made) == fmt \in archive_formats

\* if fmt in archive_formats: if not os.path.isdir(output)
NeedsUnpack(fmt, out, made) == fmt \in archive_formats /\ ~isdir(out.items[1], made)

\* (variant: a directory is handed to a single-file format as it is)
NeedsRepack_Never(fmt, out, made) == FALSE

\* else: if os.path.isdir(output)
NeedsRepack(fmt, out, made) == fmt \notin archive_formats /\ isdir(out.items[1], made)

\* One entry of the log of calls.
Event(op, i, on, ext, dest, func, ok) ==
    [op |-> op, idx |-> i, on |-> on, ext |-> ext, dest |-> dest, func |-> func, ok |-> ok]

MaxSignFormats == 3

SignPool == {"jar", "autograph_authenticode", "autograph_widevine",
             "autograph_omnija", "autograph_gpg"}

InitSign ==
    /\ pc = "entry"
    /\ requested \in SeqsUpTo(SignPool, MaxSignFormats)
    /\ path \in SignPaths
    /\ via = None /\ signing_formats = <<>> /\ idx = 0
    /\ output = None /\ recreate_archive = FALSE /\ archive_ext = None
    /\ unpacked = {} /\ log = <<>> /\ result = NotCalled
    /\ reordered = <<>>
    /\ sorted_once = None /\ sorted_twice = None /\ sorted_reordered = None
    /\ IdleScope /\ IdleFormat /\ IdleFiles /\ IdlePair

signFrame == <<scopeVars, fmtVars, fileVars, pairVars, requested, reordered, sorted_once,
               sorted_twice, sorted_reordered, path>>

\* build_filelist_dict: "formats": _sort_formats(artifact_dict["formats"]),
\* the list the caller then hands to sign()
OrderFormats ==
    /\ pc = "entry"
    /\ signing_formats' = _sort_formats(requested)
    /\ via' = "build_filelist_dict"
    /\ pc' = "ordered"
    /\ UNCHANGED <<signFrame, idx, output, recreate_archive, archive_ext, unpacked, log, result>>

\* sign() called with a list of the caller's own making
CallerFormats ==
    /\ pc = "entry"
    /\ signing_formats' = requested
    /\ via' = "caller"
    /\ pc' = "ordered"
    /\ UNCHANGED <<signFrame, idx, output, recreate_archive, archive_ext, unpacked, log, result>>

\* sign(): output = path; recreate_archive = False; archive_ext = ...
BeginSign ==
    /\ pc = "ordered"
    /\ output' = StrValue(path)
    /\ recreate_archive' = FALSE
    /\ archive_ext' = ArchiveExtOf(path)
    /\ idx' = 1
    /\ pc' = "loop"
    /\ UNCHANGED <<signFrame, via, signing_formats, unpacked, log, result>>

\* os.path.isdir(output) with the list a gpg function returned: TypeError
IsdirOfList ==
    /\ pc = "loop" /\ idx <= Len(signing_formats)
    /\ output.type = "list"
    /\ result' = Raise("TypeError")
    /\ pc' = "done"
    /\ UNCHANGED <<signFrame, via, signing_formats, idx, output, recreate_archive,
                   archive_ext, unpacked, log>>

\* output = await extract_archive(context, output); recreate_archive = True
Unpack ==
    /\ pc = "loop" /\ idx <= Len(signing_formats)
    /\ output.type = "str"
    /\ NeedsUnpack(signing_formats[idx], output, unpacked)
    /\ \E ok \in BOOLEAN :
        LET dir == extract_archive(output.items[1], unpacked, ok)
        IN /\ log' = Append(log, Event("extract_archive", idx, output.items[1], None, None,
                                       None, dir.kind = "return"))
           /\ IF dir.kind = "return"
                 THEN /\ output' = StrValue(dir.value)
                      /\ unpacked' = unpacked \cup {dir.value}
                      /\ recreate_archive' = TRUE
                      /\ pc' = "call"
                      /\ UNCHANGED result
                 ELSE /\ result' = dir
                      /\ pc' = "done"
                      /\ UNCHANGED <<output, unpacked, recreate_archive>>
    /\ UNCHANGED <<signFrame, via, signing_formats, idx, archive_ext>>

\* an archive format finds the directory already unpacked: recreate_archive = True
AlreadyUnpacked ==
    /\ pc = "loop" /\ idx <= Len(signing_formats)
    /\ output.type = "str"
    /\ signing_formats[idx] \in archive_formats
    /\ ~NeedsUnpack(signing_formats[idx], output, unpacked)
    /\ recreate_archive' = TRUE
    /\ pc' = "call"
    /\ UNCHANGED <<signFrame, via, signing_formats, idx, output, archive_ext, unpacked,
                   log, result>>

\* output = await make_archive(context, output, archive_ext, path);
\* recreate_archive = False
Repack ==
    /\ pc = "loop" /\ idx <= Len(signing_formats)
    /\ output.type = "str"
    /\ NeedsRepack(signing_formats[idx], output, unpacked)
    /\ \E ok \in BOOLEAN :
        LET made == make_archive(archive_ext, path, ok)
        IN /\ log' = Append(log, Event("make_archive", idx, output.items[1], archive_ext,
                                       path, None, made.kind = "return"))
           /\ IF made.kind = "return"
                 THEN /\ output' = StrValue(made.value)
                      /\ recreate_archive' = FALSE
                      /\ pc' = "call"
                      /\ UNCHANGED result
                 ELSE /\ result' = made
                      /\ pc' = "done"
                      /\ UNCHANGED <<output, recreate_archive>>
    /\ UNCHANGED <<signFrame, via, signing_formats, idx, archive_ext, unpacked>>

\* a single-file format finds a file: recreate_archive = False
AlreadyPacked ==
    /\ pc = "loop" /\ idx <= Len(signing_formats)
    /\ output.type = "str"
    /\ signing_formats[idx] \notin archive_formats
    /\ ~NeedsRepack(signing_formats[idx], output, unpacked)
    /\ recreate_archive' = FALSE
    /\ pc' = "call"
    /\ UNCHANGED <<signFrame, via, signing_formats, idx, output, archive_ext, unpacked,
                   log, result>>

\* output = await signing_func(context, output, fmt)
CallSigningFunc ==
    /\ pc = "call"
    /\ LET fmt == signing_formats[idx]
           func == _get_signing_function_from_format(fmt)
       IN \E ok \in BOOLEAN :
           LET signed == signing_outcome(func, output.items[1], ok)
           IN /\ log' = Append(log, Event("sign", idx, output.items[1], None, None, func, ok))
              /\ IF signed.kind = "return"
                    THEN /\ output' = signed.value
                         /\ idx' = idx + 1
                         /\ pc' = "loop"
                         /\ UNCHANGED result
                    ELSE /\ result' = signed
                         /\ pc' = "done"
                         /\ UNCHANGED <<output, idx>>
    /\ UNCHANGED <<signFrame, via, signing_formats, recreate_archive, archive_ext, unpacked>>

\* if recreate_archive: output = await make_archive(context, output, archive_ext, path)
FinalRepack ==
    /\ pc = "loop" /\ idx > Len(signing_formats)
    /\ recreate_archive
    /\ \E ok \in BOOLEAN :
        LET made == make_archive(archive_ext, path, ok)
        IN /\ log' = Append(log, Event("make_archive", idx, output.items[1], archive_ext,
                                       path, None, made.kind = "return"))
           /\ IF made.kind = "return"
                 THEN /\ output' = StrValue(made.value)
                      /\ pc' = "return"
                      /\ UNCHANGED result
                 ELSE /\ result' = made
                      /\ pc' = "done"
                      /\ UNCHANGED output
    /\ UNCHANGED <<signFrame, via, signing_formats, idx, recreate_archive, archive_ext, unpacked>>

\* if not isinstance(output, (tuple, list)): output = [output]; return output
ReturnOutput ==
    /\ \/ pc = "return"
       \/ pc = "loop" /\ idx > Len(signing_formats) /\ ~recreate_archive
    /\ result' = Return(output.items)
    /\ pc' = "done"
    /\ UNCHANGED <<signFrame, via, signing_formats, idx, output, recreate_archive,
                   archive_ext, unpacked, log>>

NextSign ==
    \/ OrderFormats \/ CallerFormats \/ BeginSign
    \/ IsdirOfList \/ Unpack \/ AlreadyUnpacked \/ Repack \/ AlreadyPacked
    \/ CallSigningFunc \/ FinalRepack \/ ReturnOutput

SpecSign == InitSign /\ [][NextSign]_vars

\* The operations of the log, in order.
LogOps == [i \in 1..Len(log) |-> log[i].op]
\* The log entries of one operation.
LogOf(op) == {i \in 1..Len(log) : log[i].op = op}
\* Whether the i-th format needs the unpacked directory.
IsArchiveAt(i) == i \in 1..Len(signing_formats) /\ signing_formats[i] \in archive_formats
\* The first position of the maximal run of unpack-requiring formats that holds i.
RunStart(i) ==
    CHOOSE j \in 1..i :
        /\ \A h \in j..i : IsArchiveAt(h)
        /\ ~IsArchiveAt(j - 1)

\* C3: at most one unpack per maximal contiguous run of unpack-requiring
\* formats, at most one repack after each run (before the next single-file
\* format or at the end of the loop), and never two pack/unpack steps in a
\* row without a signing operation between them.
C3_NoRedundantPackUnpack ==
    /\ \A i, j \in LogOf("extract_archive") :
           /\ IsArchiveAt(log[i].idx)
           /\ RunStart(log[i].idx) = RunStart(log[j].idx) => i = j
    /\ \A i, j \in LogOf("make_archive") : log[i].idx = log[j].idx => i = j
    /\ \A i \in 1..(Len(log) - 1) : log[i].op = "sign" \/ log[i + 1].op = "sign"

\* A run of two unpack-requiring formats, then a single-file format.
C3_Witness ==
    /\ pc = "done" /\ result.kind = "return"
    /\ signing_formats = <<"autograph_widevine", "autograph_omnija", "autograph_gpg">>
    /\ LogOps = <<"extract_archive", "sign", "sign", "make_archive", "sign">>

WidevineThenGpg == <<"autograph_widevine", "autograph_gpg">>

\* C6: app.zip requested with [autograph_widevine, autograph_gpg] (or with
\* the two formats the other way round): the ordering puts autograph_gpg last, and a pipeline that returns has made
\* exactly one unpack, the widevine operation on the unpacked directory, one
\* repack with extension .zip, the gpg operation on the packed archive, and
\* returns the signed archive and the detached signature.
C6_EndToEnd ==
    ( /\ pc = "done" /\ result.kind = "return"
      /\ via = "build_filelist_dict"
      /\ path = "app.zip"
      /\ requested \in {WidevineThenGpg, <<"autograph_gpg", "autograph_widevine">>} )
    => /\ signing_formats = WidevineThenGpg
       /\ log = << Event("extract_archive", 1, "app.zip", None, None, None, TRUE),
                   Event("sign", 1, "unpacked-1", None, None, "sign_widevine", TRUE),
                   Event("make_archive", 2, "unpacked-1", ".zip", "app.zip", None, TRUE),
                   Event("sign", 2, "app.zip", None, None, "sign_gpg_with_autograph", TRUE) >>
       /\ result.value = <<"app.zip", "app.zip.asc">>

C6_Witness ==
    /\ pc = "done" /\ result.kind = "return"
    /\ via = "build_filelist_dict"
    /\ path = "app.zip"
    /\ requested = WidevineThenGpg
    /\ Len(result.value) = 2

\* C8: when sign() has ended, by a return or by an error, no directory
\* unpacked by the pipeline remains.
C8_UnpackDirsReleased == pc = "done" => unpacked = {}

ContainerExts == {".zip", ".tar.gz", ".tar.bz2"}
\* The loop is over and a repack is owed.
RepackOwedAtEnd ==
    /\ pc \in {"return", "done"}
    /\ idx > Len(signing_formats)
    /\ recreate_archive
\* The make_archive calls made after the loop.
FinalPacks == {i \in LogOf("make_archive") : log[i].idx = Len(signing_formats) + 1}

\* C9 (as stated): when sign() ends with a repack owed there is exactly one
\* final repack, to the original input path, and every repack uses the
\* container extension (.zip, .tar.gz or .tar.bz2) of the original input path.
C9_FinalRepack ==
    /\ RepackOwedAtEnd =>
           /\ Cardinality(FinalPacks) = 1
           /\ \A i \in FinalPacks : log[i].dest = path /\ i = Len(log)
    /\ \A i \in LogOf("make_archive") :
           log[i].ext \in ContainerExts /\ log[i].ext = ArchiveExtOf(path)

\* C9 (amended): when the loop ends with a repack owed, make_archive is
\* called exactly once more, with the original input path as destination;
\* every make_archive call is given the extension derived from the original
\* input path, which is absent when the path has none of the three
\* suffixes, and then the call raises the unsupported-format error and
\* sign() returns nothing; a sign() that returns after an owed repack has
\* packed with one of the three extensions and returns the input path alone.
C9_FinalRepackAttempt ==
    /\ RepackOwedAtEnd =>
           /\ Cardinality(FinalPacks) = 1
           /\ \A i \in FinalPacks : log[i].dest = path /\ i = Len(log)
    /\ \A i \in LogOf("make_archive") :
           /\ log[i].ext = ArchiveExtOf(path)
           /\ log[i].ext \notin ContainerExts =>
                  /\ ~log[i].ok
                  /\ i = Len(log)
                  /\ pc = "done" /\ result = Raise("ValueError")
    /\ (RepackOwedAtEnd /\ result.kind = "return") =>
           /\ log[Len(log)].ok
           /\ log[Len(log)].ext \in ContainerExts
           /\ result.value = <<path>>

\* An intermediate and a final repack of a tar archive.
C9_Witness ==
    /\ pc = "done" /\ result = Return(<<"app.tar.gz">>)
    /\ signing_formats = <<"autograph_widevine", "jar", "autograph_omnija">>
    /\ recreate_archive
    /\ LogOps = <<"extract_archive", "sign", "make_archive", "sign",
                  "extract_archive", "sign", "make_archive">>
    /\ log[7].ext = ".tar.gz" /\ log[7].dest = "app.tar.gz"

\* C10: a failure of a signing operation ends sign() with that error: the
\* failed call is the last call of the pipeline (no later operation, pack or
\* unpack), no format's operation is called twice, and what the caller gets
\* is the error or the outputs of a pipeline in which every format's
\* operation succeeded.
C10_FailurePropagates ==
    /\ \A i \in LogOf("sign") :
           ~log[i].ok => /\ i = Len(log)
                         /\ pc = "done"
                         /\ result = Raise("BackendError")
    /\ \A i, j \in LogOf("sign") : log[i].idx = log[j].idx => i = j
    /\ (pc = "done" /\ result.kind = "return") =>
           /\ \A i \in LogOf("sign") : log[i].ok
           /\ {log[i].idx : i \in LogOf("sign")} = 1..Len(signing_formats)

\* The first of two operations fails after an unpack.
C10_Witness ==
    /\ pc = "done" /\ result = Raise("BackendError")
    /\ signing_formats = WidevineThenGpg
    /\ LogOps = <<"extract_archive", "sign">>
    /\ ~log[2].ok

\* The make_archive calls made inside the loop, before a single-file format.
IntermediatePacks == {i \in LogOf("make_archive") : log[i].idx <= Len(signing_formats)}

\* C14 (as stated): the repack made inside the loop is written to a path
\* different from the final destination, which is the original input path.
C14_IntermediateElsewhere ==
    \A i \in IntermediatePacks : log[i].dest # path

\* C14 (amended): the repack made inside the loop is written to the original
\* input path, the destination of the final repack too, and when it has
\* succeeded the current location is that path.
C14_IntermediateToInputPath ==
    /\ \A i \in LogOf("make_archive") : log[i].dest = path
    /\ (pc = "call" /\ log # <<>> /\ log[Len(log)].op = "make_archive")
           => /\ log[Len(log)].ok
              /\ Len(log) \in IntermediatePacks
              /\ output = StrValue(path)

\* An intermediate repack of an unpacked archive has just succeeded.
C14_Witness ==
    /\ pc = "call" /\ path = "app.tar.gz"
    /\ signing_formats = <<"autograph_widevine", "jar">> /\ idx = 2
    /\ LogOps = <<"extract_archive", "sign", "make_archive">>
    /\ log[3].ok /\ log[3].dest = "app.tar.gz"
    /\ output = StrValue("app.tar.gz")

\* C15: the operations are called one after the other, once per format and
\* in list order, and when an operation has returned and further formats
\* follow, the current location is that operation's primary output alone,
\* also when the operation returned several outputs; the next format is
\* then processed on that location.
C15_PrimaryOutputChained ==
    /\ \A i, j \in LogOf("sign") : i < j => log[i].idx < log[j].idx
    /\ (pc = "loop" /\ idx \in 2..Len(signing_formats)) =>
           /\ log[Len(log)].op = "sign"
           /\ output = StrValue(signing_output(log[Len(log)].func, log[Len(log)].on).items[1])
    /\ pc = "done" => result # Raise("TypeError")

\* Extensions make_archive may be handed.
ExtPool == ContainerExts \cup {None, ".tar.xz", ".tar", ".7z", ""}

\* C17: make_archive rejects every extension other than .zip, .tar.gz and
\* .tar.bz2, the absent extension included, with the unsupported-format
\* error and without writing an archive; a pipeline that calls it for an
\* input path without one of the three extensions ends in that error and
\* returns no outputs.
C17_UnsupportedExtensionFails ==
    /\ \A ext \in ExtPool \ ContainerExts : \A ok \in BOOLEAN :
           make_archive(ext, "app", ok) = Raise("ValueError")
    /\ \A i \in LogOf("make_archive") :
           log[i].ext \notin ContainerExts =>
               /\ ~log[i].ok
               /\ i = Len(log)
               /\ pc = "done" /\ result = Raise("ValueError")
    /\ (RepackOwedAtEnd /\ ArchiveExtOf(path) \notin ContainerExts /\ pc = "done")
           => result = Raise("ValueError")

\* A directory given as input, an unpack-requiring format: the owed final
\* repack has no extension to pack with.
C17_Witness ==
    /\ pc = "done" /\ path = "app" /\ archive_ext = None
    /\ signing_formats = <<"autograph_widevine">>
    /\ LogOps = <<"sign", "make_archive">>
    /\ ~log[2].ok
    /\ result = Raise("ValueError")

\* The current location (its primary path) is a directory.
OutputIsDir == isdir(output.items[1], unpacked)

\* C20 (as stated): after every loop iteration the repack-owed flag is true
\* exactly when the current location is an unpacked directory, and what
\* sign() returns first is never a directory, whatever the format list,
\* the empty one included.
C20_FlagTracksDirectory ==
    /\ (pc = "loop" /\ idx > 1) => (recreate_archive <=> OutputIsDir)
    /\ (pc = "done" /\ result.kind = "return") => ~isdir(result.value[1], unpacked)

\* C20 (amended): after every loop iteration the repack-owed flag is true
\* exactly when the current location is a directory, and a sign() that
\* returns after at least one format never returns a directory first; with
\* no format at all it makes no call and returns the input path as it was
\* given, a directory included.
C20_FlagTracksDirectoryAfterStep ==
    /\ (pc = "loop" /\ idx > 1) => (recreate_archive <=> OutputIsDir)
    /\ (pc = "done" /\ result.kind = "return") =>
           IF signing_formats = <<>>
               THEN log = <<>> /\ result.value = <<path>>
               ELSE ~isdir(result.value[1], unpacked)

\* After an unpack-requiring format the flag is set and the location is the
\* unpacked directory; a single-file format follows.
C20_Witness ==
    /\ pc = "loop" /\ idx = 2
    /\ path = "app.zip"
    /\ signing_formats = <<"autograph_omnija", "jar">>
    /\ recreate_archive /\ OutputIsDir
    /\ output = StrValue("unpacked-1")

\* ------------------------------------------------------------------------
\* Upstream artifact resolver: build_filelist_dict()

\* context.config["work_dir"]
work_dir == "/work"

\* os.path.join(a, b): an absolute b replaces a; otherwise the two are
\* joined by one separator.
path_join2(a, b) ==
    IF startswith(Chars(b), Chars("/")) THEN b
    ELSE IF a = "" \/ endswith(Chars(a), Chars("/")) THEN a \o b
    ELSE a \o "/" \o b

\* os.path.join(work_dir, "cot", taskId, path)
full_path_of(taskId, p) ==
    path_join2(path_join2(path_join2(work_dir, "cot"), taskId), p)

\* "{} doesn't exist!".format(full_path)
missing_message(full_path) == full_path \o " doesn't exist!"

\* (variant: only the first miss is reported)
append_message_FirstOnly(messages, full_path) ==
    IF messages = <<>> THEN <<missing_message(full_path)>> ELSE messages

\* messages.append("{} doesn't exist!".format(full_path))
append_message(messages, full_path) == Append(messages, missing_message(full_path))

\* filelist_dict[path] = entry
dict_set(d, key, entry) ==
    [k \in DOMAIN d \cup {key} |-> IF k = key THEN entry ELSE d[k]]

\* The two nested for loops of build_filelist_dict from path k of group g
\* on.  acc holds the payload (whose formats lists _sort_formats reorders in
\* place), filelist_dict and messages.  The "formats" of an entry is the
\* list object of its group: formats_of is the position of that group, and
\* the list is read through the payload.
RECURSIVE build_from(_, _, _, _)
build_from(acc, exist, g, k) ==
    IF g > Len(acc.payload) THEN acc
    ELSE IF k > Len(acc.payload[g].paths) THEN build_from(acc, exist, g + 1, 1)
    ELSE LET artifact_dict == acc.payload[g]
             p == artifact_dict.paths[k]
             full_path == full_path_of(artifact_dict.taskId, p)
         IN build_from(
                [payload |-> [acc.payload EXCEPT ![g].formats = _sort_formats(@)],
                 filelist_dict |-> dict_set(acc.filelist_dict, p,
                                            [full_path |-> full_path, formats_of |-> g]),
                 messages |-> IF full_path \notin exist
                                 THEN append_message(acc.messages, full_path)
                                 ELSE acc.messages],
                exist, g, k + 1)

\* build_filelist_dict(context): the outcome and the payload it leaves
build_filelist_dict(pl, exist) ==
    LET acc == build_from([payload |-> pl, filelist_dict |-> <<>>, messages |-> <<>>],
                          exist, 1, 1)
    IN [payload |-> acc.payload,
        outcome |-> IF acc.messages # <<>>
                       THEN [kind |-> "raise", error |-> "TaskVerificationError",
                             messages |-> acc.messages]
                       ELSE Return(acc.filelist_dict)]

MaxEntries == 3

TaskIds == {"t1", "t2"}
PathPool == {"a", "b"}
FormatLists == {<<"gpg", "jar">>, <<"gpg", "gpg", "jar">>}

\* The artifact groups that declare n paths.
Groups(n) ==
    {[taskId |-> t, paths |-> ps, formats |-> fs] :
        t \in TaskIds, ps \in [1..n -> PathPool], fs \in FormatLists}

\* The payloads that declare at most n paths in all, no group without a path.
RECURSIVE Payloads(_)
Payloads(n) ==
    {<<>>} \cup UNION {{<<grp>> \o rest : grp \in Groups(k), rest \in Payloads(n - k)} :
                          k \in 1..n}

InitFiles ==
    /\ pc = "start"
    /\ payload \in Payloads(MaxEntries)
    /\ existing \in SUBSET {full_path_of(t, p) : t \in TaskIds, p \in PathPool}
    /\ files_result = NotCalled
    /\ IdleScope /\ IdleFormat /\ IdleSort /\ IdleSign /\ IdlePair

BuildFilelistDict ==
    /\ pc = "start"
    /\ \E built \in {build_filelist_dict(payload, existing)} :
          /\ payload' = built.payload
          /\ files_result' = built.outcome
    /\ pc' = "done"
    /\ UNCHANGED <<existing, scopeVars, fmtVars, sortVars, signVars, pairVars>>

NextFiles == BuildFilelistDict

SpecFiles == InitFiles /\ [][NextFiles]_vars

\* The declared locations, as (group, path position) pairs, that do not exist.
MissingEntries ==
    {<<g, k>> \in (1..Len(payload)) \X (1..MaxEntries) :
        /\ k <= Len(payload[g].paths)
        /\ full_path_of(payload[g].taskId, payload[g].paths[k]) \notin existing}

\* C5: every location is checked before failing: with a missing file the
\* call raises one verification error whose report names every missing
\* location of every group and returns no mapping; with none missing it
\* raises nothing.
C5_AllMissingReported ==
    pc = "done" =>
        IF MissingEntries # {}
           THEN /\ files_result.kind = "raise"
                /\ files_result.error = "TaskVerificationError"
                /\ {files_result.messages[i] : i \in 1..Len(files_result.messages)}
                     = {missing_message(full_path_of(payload[e[1]].taskId,
                                                     payload[e[1]].paths[e[2]])) :
                            e \in MissingEntries}
           ELSE files_result.kind = "return"

\* Two groups, each with a missing file.
C5_Witness ==
    /\ pc = "done"
    /\ Len(payload) = 2
    /\ \E e, f \in MissingEntries :
           /\ e[1] = 1 /\ f[1] = 2
           /\ full_path_of(payload[1].taskId, payload[1].paths[e[2]])
                # full_path_of(payload[2].taskId, payload[2].paths[f[2]])
    /\ files_result.kind = "raise"
    /\ Len(files_result.messages) >= 2

\* The (group, path position) pairs the payload declares.
DeclaredEntries ==
    {<<g, k>> \in (1..Len(payload)) \X (1..MaxEntries) : k <= Len(payload[g].paths)}

\* C16: on success there is an entry for every declared (group, path) pair,
\* with the location {work_dir}/cot/{taskId}/{path} of its own group and the
\* formats of its own group; no pair is lost or replaced, also when two
\* groups declare the same relative path.
C16_EntryPerDeclaredPair ==
    (pc = "done" /\ files_result.kind = "return") =>
        \A e \in DeclaredEntries :
            LET grp == payload[e[1]]
                p == grp.paths[e[2]]
            IN /\ p \in DOMAIN files_result.value
               /\ files_result.value[p].full_path = full_path_of(grp.taskId, p)
               /\ files_result.value[p].formats_of = e[1]

\* C18: build_filelist_dict leaves the task payload as it found it: every
\* group's formats list holds the same formats in the same order after the
\* call, whether it returns or raises.
C18_PayloadUnchanged == [][payload' = payload]_vars

\* ------------------------------------------------------------------------
\* Two file entries signed side by side

\* signing_func = _get_signing_function_from_format(fmt), for the formats
\* the pipelines are given
signing_func_of == [fmt \in SignPool |-> _get_signing_function_from_format(fmt)]

\* The local state of one sign() call that has run lines 173-182 for a file
\* entry: the source path and the formats list the entry refers to.
PipeBegin(p, g) ==
    [path |-> p, formats_of |-> g, pc |-> "loop", idx |-> 1,
     output |-> StrValue(p), recreate_archive |-> FALSE,
     archive_ext |-> ArchiveExtOf(p), log |-> <<>>, result |-> NotCalled]

\* A call that ends the pipeline with an error, or goes on.
PipeCalled(st, event, outcome, next) ==
    IF outcome.kind = "return"
        THEN [next EXCEPT !.log = Append(st.log, event)]
        ELSE [st EXCEPT !.log = Append(st.log, event), !.result = outcome, !.pc = "done"]

\* The steps sign() can take next from the local state st, with fmts the
\* formats list and dirs the directories of the work directory: the pairs
\* of the local state and the directories after the step.
SignSteps(st, fmts, dirs) ==
    LET loc == st.output.items[1] IN
    IF st.pc = "loop" /\ st.idx <= Len(fmts) THEN
        LET fmt == fmts[st.idx] IN
        IF st.output.type = "list" THEN
            \* os.path.isdir(output) with the list a gpg function returned
            {<<[st EXCEPT !.result = Raise("TypeError"), !.pc = "done"], dirs>>}
        ELSE IF fmt \in archive_formats THEN
            IF NeedsUnpack(fmt, st.output, dirs) THEN
                \* output = await extract_archive(context, output)
                {LET dir == extract_archive(loc, dirs, ok)
                 IN <<PipeCalled(st,
                         Event("extract_archive", st.idx, loc, None, None, None, dir.kind = "return"),
                         dir,
                         [st EXCEPT !.output = StrValue(dir.value),
                                    !.recreate_archive = TRUE, !.pc = "call"]),
                      IF dir.kind = "return" THEN dirs \cup {dir.value} ELSE dirs>> :
                    ok \in BOOLEAN}
            ELSE {<<[st EXCEPT !.recreate_archive = TRUE, !.pc = "call"], dirs>>}
        ELSE IF NeedsRepack(fmt, st.output, dirs) THEN
            \* output = await make_archive(context, output, archive_ext, path)
            {LET made == make_archive(st.archive_ext, st.path, ok)
             IN <<PipeCalled(st,
                     Event("make_archive", st.idx, loc, st.archive_ext, st.path, None,
                           made.kind = "return"),
                     made,
                     [st EXCEPT !.output = StrValue(made.value),
                                !.recreate_archive = FALSE, !.pc = "call"]),
                  dirs>> :
                ok \in BOOLEAN}
        ELSE {<<[st EXCEPT !.recreate_archive = FALSE, !.pc = "call"], dirs>>}
    ELSE IF st.pc = "call" THEN
        \* output = await signing_func(context, output, fmt)
        {LET func == signing_func_of[fmts[st.idx]]
             signed == signing_outcome(func, loc, ok)
         IN <<PipeCalled(st,
                 Event("sign", st.idx, loc, None, None, func, ok),
                 signed,
                 [st EXCEPT !.output = signed.value, !.idx = st.idx + 1, !.pc = "loop"]),
              dirs>> :
            ok \in BOOLEAN}
    ELSE IF st.pc = "loop" /\ st.recreate_archive THEN
        \* if recreate_archive: output = await make_archive(...)
        {LET made == make_archive(st.archive_ext, st.path, ok)
         IN <<PipeCalled(st,
                 Event("make_archive", st.idx, loc, st.archive_ext, st.path, None,
                       made.kind = "return"),
                 made,
                 [st EXCEPT !.output = StrValue(made.value), !.pc = "return"]),
              dirs>> :
            ok \in BOOLEAN}
    ELSE IF st.pc \in {"loop", "return"} THEN
        \* return output, as a list
        {<<[st EXCEPT !.result = Return(st.output.items), !.pc = "done"], dirs>>}
    ELSE {}

\* sign() as SpecSign takes it step by step, and as SignSteps gives it: the
\* local state of the one pipeline, and that every step SpecSign takes is
\* one that SignSteps gives.
SignState ==
    [path |-> path, formats_of |-> 1, pc |-> pc, idx |-> idx, output |-> output,
     recreate_archive |-> recreate_archive, archive_ext |-> archive_ext,
     log |-> log, result |-> result]
SignStepAgrees ==
    (pc \in {"loop", "call", "return"}) =>
        <<SignState', unpacked'>> \in SignSteps(SignState, signing_formats, unpacked)
SignStepsAgree == [][SignStepAgrees]_vars

MaxPairFormats == 2

PairPool == {"autograph_widevine", "jar", "autograph_gpg"}
\* The source paths of the two entries: an entry is stored under its path,
\* so two entries never have the same one.
PairPaths == {<<"app.zip", "app.tar.gz">>, <<"app.zip", "app">>}

\* Two entries of one group refer to the one formats list of that group;
\* entries of two groups refer to a list each.
InitPair ==
    /\ pc = "pair"
    /\ \E pp \in PairPaths :
          \/ /\ entry_formats \in {<<fs>> : fs \in SeqsUpTo(PairPool, MaxPairFormats)}
             /\ pipes = <<PipeBegin(pp[1], 1), PipeBegin(pp[2], 1)>>
          \/ /\ entry_formats \in {<<fs, gs>> : fs, gs \in SeqsUpTo(PairPool, MaxPairFormats)}
             /\ pipes = <<PipeBegin(pp[1], 1), PipeBegin(pp[2], 2)>>
    /\ workdirs = {}
    /\ IdleScope /\ IdleFormat /\ IdleSort /\ IdleSign /\ IdleFiles

\* Pipeline i takes the step to <<local state, directories>> s.
PipeTakes(i, s) ==
    /\ pipes' = [pipes EXCEPT ![i] = s[1]]
    /\ workdirs' = s[2]
    /\ UNCHANGED <<pc, entry_formats, scopeVars, fmtVars, sortVars, signVars, fileVars>>

PipeSteps(i) == SignSteps(pipes[i], entry_formats[pipes[i].formats_of], workdirs)

\* the isdir tests of one loop iteration, with the unpack or repack they ask for
PairPrepare(i) ==
    /\ pipes[i].pc = "loop"
    /\ pipes[i].idx <= Len(entry_formats[pipes[i].formats_of])
    /\ \E s \in PipeSteps(i) : PipeTakes(i, s)

\* output = await signing_func(context, output, fmt)
PairCall(i) ==
    /\ pipes[i].pc = "call"
    /\ \E s \in PipeSteps(i) : PipeTakes(i, s)

\* the final repack, if owed, and the return
PairFinish(i) ==
    /\ \/ pipes[i].pc = "return"
       \/ pipes[i].pc = "loop" /\ pipes[i].idx > Len(entry_formats[pipes[i].formats_of])
    /\ \E s \in PipeSteps(i) : PipeTakes(i, s)

NextPair == \E i \in {1, 2} : PairPrepare(i) \/ PairCall(i) \/ PairFinish(i)

SpecPair == InitPair /\ [][NextPair]_vars

\* What can be told of a pipeline from outside: its calls, a directory that
\* extract_archive made standing for any other, and its outcome.
UnpackDirSet == {UnpackDirs[k] : k \in 1..Len(UnpackDirs)}
Observed(st) ==
    [calls |-> [k \in 1..Len(st.log) |->
                   IF st.log[k].on \in UnpackDirSet
                       THEN [st.log[k] EXCEPT !.on = "unpacked"]
                       ELSE st.log[k]],
     result |-> st.result]

\* What a pipeline that runs from st on with nothing beside it can end as.
RECURSIVE AloneFrom(_, _, _)
AloneFrom(st, fmts, dirs) ==
    IF st.pc = "done" THEN {Observed(st)}
    ELSE UNION {AloneFrom(s[1], fmts, s[2]) : s \in SignSteps(st, fmts, dirs)}

\* The locations a pipeline has written: what it had signed in place, with
\* the detached signatures, and the archives it packed.
Written(st) ==
    UNION {IF st.log[k].op = "sign" /\ st.log[k].ok
               THEN LET out == signing_output(st.log[k].func, st.log[k].on).items
                    IN {out[n] : n \in 1..Len(out)}
           ELSE IF st.log[k].op = "make_archive" /\ st.log[k].ok THEN {st.log[k].dest}
           ELSE {} : k \in 1..Len(st.log)}
\* The locations a pipeline has read or tested.
Read(st) == {st.path} \cup {st.log[k].on : k \in 1..Len(st.log)}
            \cup {st.output.items[n] : n \in 1..Len(st.output.items)}

\* What each entry can end as when its pipeline runs alone: the triples of
\* the source path, the formats list and what is told of the run.
AloneOutcomes ==
    UNION {{<<p, fs, o>> : o \in AloneFrom(PipeBegin(p, 1), fs, {})} :
              p \in {pp[n] : pp \in PairPaths, n \in {1, 2}},
              fs \in SeqsUpTo(PairPool, MaxPairFormats)}

\* C11: two file entries (of one group or of two) signed side by side,
\* their steps interleaved in any way: each pipeline that has ended made the
\* calls and has the outcome of a run of that entry alone, and no pipeline
\* has written a location the other reads or writes.
C11_PipelinesIndependent ==
    \A i, j \in {1, 2} :
        /\ pipes[i].pc = "done" =>
               <<pipes[i].path, entry_formats[pipes[i].formats_of], Observed(pipes[i])>>
                   \in AloneOutcomes
        /\ i # j => Written(pipes[i]) \cap (Read(pipes[j]) \cup Written(pipes[j])) = {}

\* Two paths of one group, both unpacked, signed and packed again, the
\* second pipeline unpacking while the first had its directory.
C11_Witness ==
    /\ entry_formats = <<(<<"autograph_widevine", "autograph_gpg">>)>>
    /\ pipes[1].pc = "done" /\ pipes[2].pc = "done"
    /\ pipes[1].result = Return(<<"app.zip", "app.zip.asc">>)
    /\ pipes[2].result = Return(<<"app.tar.gz", "app.tar.gz.asc">>)
    /\ pipes[1].log[2].on = "unpacked-1"
    /\ pipes[2].log[2].on = "unpacked-2"
    /\ workdirs = {"unpacked-1", "unpacked-2"}

====
